---- MODULE Spec2Model ----
(***************************************************************************)
(* Admin backend API: routers, auth/role middleware, the category, product *)
(* and order controllers, adminLogin / getAdminProfile and the             *)
(* createAdminUser script, over a document store.                          *)
(*                                                                         *)
(* A request is one atomic step in the sequential specifications (Spec,    *)
(* SpecCategories, SpecProducts, SpecOrders, SpecLogin); SpecConcurrent    *)
(* splits the product handlers at their store calls.                       *)
(***************************************************************************)
EXTENDS Integers, Sequences, FiniteSets, TLC

\* ------------------------------------------------------------------ bounds
\* Category / product ids ever allocated, stored orders, requests served in
\* one behaviour, concurrent clients.
MaxCategories == 3
MaxProducts == 3
NumOrders == 2
MaxRequests == 3
MaxRouted == 2
NumClients == 2
MaxRuns == 2

VARIABLES
    users,           \* User collection: id -> [email, passwordHash, role]
    categories,      \* Category collection: id -> [name]
    products,        \* Product collection: id -> [name, categoryId]
    orders,          \* Order collection: id -> [status, total]
    nextCategoryId,  \* next fresh Category _id
    nextProductId,   \* next fresh Product _id
    jwtSecret,       \* process.env.JWT_SECRET is set
    last,            \* the last request served and its response
    served,          \* number of requests served
    limit,           \* number of requests one behaviour serves
    clients,         \* SpecConcurrent: each client's request in flight
    env,             \* ADMIN_EMAIL, ADMIN_PASSWORD of the createAdminUser script
    script           \* the runs of the createAdminUser script

store == <<categories, products, orders, nextCategoryId, nextProductId>>
vars == <<users, categories, products, orders, nextCategoryId, nextProductId,
          jwtSecret, last, served, limit, clients, env, script>>

\* ------------------------------------------------------------------ strings
\* A string is a sequence of characters, so that trim() and min(1) act on it.
Space == " "

RECURSIVE trimStart(_)
trimStart(s) ==
    IF s # <<>> /\ Head(s) = Space THEN trimStart(Tail(s)) ELSE s

RECURSIVE trimEnd(_)
trimEnd(s) ==
    IF s # <<>> /\ s[Len(s)] = Space THEN trimEnd(SubSeq(s, 1, Len(s) - 1)) ELSE s

\* String.prototype.trim, as zod's .trim() applies it.
trim(s) == trimEnd(trimStart(s))

\* A body field: present or not, and its value.
Field(v) == [present |-> TRUE, value |-> v]
Absent == [present |-> FALSE, value |-> <<>>]

\* JavaScript truthiness of an optional string (undefined and "" are falsy).
truthy(field) == field.present /\ field.value # <<>>

\* ------------------------------------------------------------------ responses
\* What a handler returns: the store after it, and the response.
Store ==
    [categories |-> categories, products |-> products, orders |-> orders,
     nextCategoryId |-> nextCategoryId, nextProductId |-> nextProductId]

NoTokens ==
    [accessToken |-> 0, refreshToken |-> 0, actor |-> 0, compared |-> FALSE,
     threw |-> FALSE]

\* res.status(code).json({ success: false, error })
fail(code, error) ==
    [status |-> code, success |-> FALSE, error |-> error] @@ NoTokens @@ Store

\* the catch block's answer, after a store call (or bcrypt, or jwt) threw
thrown(code, error) == [fail(code, error) EXCEPT !.threw = TRUE]

\* res.status(code).json({ success: true, ... }) after the store became `st`
ok(code, st) ==
    [status |-> code, success |-> TRUE, error |-> ""] @@ NoTokens @@ st

\* ------------------------------------------------------------------ categories
\* z.string().min(1, 'Name is required').trim(): the checks run in the order
\* written, min(1) on the raw string, then the trim.
nameSchemaOk(field) == field.present /\ Len(field.value) >= 1

\* createCategorySchema.parse: name is required.
createCategorySchemaOk(body) == nameSchemaOk(body.name)

\* updateCategorySchema.parse: name is optional.
updateCategorySchemaOk(body) == ~body.name.present \/ nameSchemaOk(body.name)

\* the parsed data: the name trimmed, when given
parsedName(body) ==
    IF body.name.present THEN Field(trim(body.name.value)) ELSE Absent

\* models/Category: the schema's validation of a document on create / save.
\* Category records are plain persisted records; name uniqueness is left to
\* the controllers' query-then-insert checks.
categoryValidate(doc) == TRUE

\* Category.findOne({ name })
categoryFindOne(name) == \E c \in DOMAIN categories : categories[c].name = name

\* Category.findById(id)
categoryFindById(id) == id \in DOMAIN categories

\* fault = k: the k-th store call of the handler throws (0: none does).
createCategory(body, fault) ==
    IF ~createCategorySchemaOk(body) THEN fail(400, "Name is required")
    ELSE LET data == parsedName(body) IN
    IF fault = 1 THEN thrown(500, "Failed to create category")
    ELSE IF categoryFindOne(data.value)
    THEN fail(400, "Category with this name already exists")
    ELSE IF fault = 2 \/ ~categoryValidate([name |-> data.value])
    THEN thrown(500, "Failed to create category")
    ELSE ok(201, [Store EXCEPT
            !.categories = (nextCategoryId :> [name |-> data.value]) @@ categories,
            !.nextCategoryId = nextCategoryId + 1])

updateCategory(id, body, fault) ==
    IF ~updateCategorySchemaOk(body) THEN fail(400, "Name is required")
    ELSE LET data == parsedName(body) IN
    IF fault = 1 THEN thrown(500, "Failed to update category")
    ELSE IF ~categoryFindById(id) THEN fail(404, "Category not found")
    ELSE IF truthy(data) /\ data.value # categories[id].name /\ fault = 2
    THEN thrown(500, "Failed to update category")
    ELSE IF truthy(data) /\ data.value # categories[id].name
            /\ categoryFindOne(data.value)
    THEN fail(400, "Category with this name already exists")
    ELSE LET assigned ==
                [name |-> IF data.present THEN data.value ELSE categories[id].name] IN
    IF fault = 3 \/ ~categoryValidate(assigned)
    THEN thrown(500, "Failed to update category")
    ELSE ok(200, [Store EXCEPT !.categories[id] = assigned])

deleteCategory(id, fault) ==
    IF fault = 1 THEN thrown(500, "Failed to delete category")
    ELSE IF ~categoryFindById(id) THEN fail(404, "Category not found")
    ELSE IF fault = 2 THEN thrown(500, "Failed to delete category")
    ELSE ok(200, [Store EXCEPT
            !.categories = [c \in DOMAIN categories \ {id} |-> categories[c]]])

getCategories(fault) ==
    IF fault = 1 THEN thrown(500, "Failed to fetch categories") ELSE ok(200, Store)

getCategoryById(id, fault) ==
    IF fault = 1 THEN thrown(500, "Failed to fetch category")
    ELSE IF ~categoryFindById(id) THEN fail(404, "Category not found")
    ELSE ok(200, Store)

\* ------------------------------------------------------------------ products
\* categoryId of a body: NoCategoryId when the field is absent, BadCategoryId
\* when it does not match /^[0-9a-fA-F]{24}$/, else an ObjectId.
NoCategoryId == -1
BadCategoryId == 0

categoryIdSchemaOk(cid) == cid # BadCategoryId

\* createProductSchema.parse: name and categoryId are required (the other
\* fields of the body are taken to satisfy the schema).
createProductSchemaOk(body) ==
    nameSchemaOk(body.name) /\ body.categoryId # NoCategoryId
        /\ categoryIdSchemaOk(body.categoryId)

\* updateProductSchema.parse: every field is optional.
updateProductSchemaOk(body) ==
    (~body.name.present \/ nameSchemaOk(body.name))
        /\ categoryIdSchemaOk(body.categoryId)

\* models/Product: the schema's validation of a document on create / save.
productValidate(doc) == TRUE

\* Product.findOne({ name })
productFindOne(name) == \E p \in DOMAIN products : products[p].name = name

\* Product.findById(id)
productFindById(id) == id \in DOMAIN products

\* createProduct without the check that the category exists
createProductUnverified(body, fault) ==
    IF ~createProductSchemaOk(body) THEN fail(400, "Validation error")
    ELSE LET data == parsedName(body) IN
    IF fault \in {1, 2} THEN thrown(500, "Failed to create product")
    ELSE IF productFindOne(data.value)
    THEN fail(400, "Product with this name already exists")
    ELSE LET doc == [name |-> data.value, categoryId |-> body.categoryId] IN
    IF fault \in {3, 4} THEN thrown(500, "Failed to create product")
    ELSE ok(201, [Store EXCEPT
            !.products = (nextProductId :> doc) @@ products,
            !.nextProductId = nextProductId + 1])

createProduct(body, fault) ==
    IF ~createProductSchemaOk(body) THEN fail(400, "Validation error")
    ELSE LET data == parsedName(body) IN
    IF fault = 1 THEN thrown(500, "Failed to create product")
    ELSE IF ~categoryFindById(body.categoryId) THEN fail(400, "Category not found")
    ELSE IF fault = 2 THEN thrown(500, "Failed to create product")
    ELSE IF productFindOne(data.value)
    THEN fail(400, "Product with this name already exists")
    ELSE LET doc == [name |-> data.value, categoryId |-> body.categoryId] IN
    IF fault = 3 \/ ~productValidate(doc)
    THEN thrown(500, "Failed to create product")
    ELSE LET created == [Store EXCEPT
                !.products = (nextProductId :> doc) @@ products,
                !.nextProductId = nextProductId + 1] IN
    \* Product.findById(product._id).populate(...) after the create
    IF fault = 4
    THEN [thrown(500, "Failed to create product") EXCEPT
            !.products = created.products, !.nextProductId = created.nextProductId]
    ELSE ok(201, created)

updateProduct(id, body, fault) ==
    IF ~updateProductSchemaOk(body) THEN fail(400, "Validation error")
    ELSE LET data == parsedName(body) IN
    IF fault = 1 THEN thrown(500, "Failed to update product")
    ELSE IF ~productFindById(id) THEN fail(404, "Product not found")
    ELSE IF body.categoryId # NoCategoryId /\ fault = 2
    THEN thrown(500, "Failed to update product")
    ELSE IF body.categoryId # NoCategoryId /\ ~categoryFindById(body.categoryId)
    THEN fail(400, "Category not found")
    ELSE IF truthy(data) /\ data.value # products[id].name /\ fault = 3
    THEN thrown(500, "Failed to update product")
    ELSE IF truthy(data) /\ data.value # products[id].name
            /\ productFindOne(data.value)
    THEN fail(400, "Product with this name already exists")
    ELSE LET assigned ==
                [name |-> IF data.present THEN data.value ELSE products[id].name,
                 categoryId |-> IF body.categoryId # NoCategoryId
                                THEN body.categoryId
                                ELSE products[id].categoryId] IN
    IF fault = 4 \/ ~productValidate(assigned)
    THEN thrown(500, "Failed to update product")
    ELSE LET saved == [Store EXCEPT !.products[id] = assigned] IN
    \* Product.findById(product._id).populate(...) after the save
    IF fault = 5
    THEN [thrown(500, "Failed to update product") EXCEPT !.products = saved.products]
    ELSE ok(200, saved)

deleteProduct(id, fault) ==
    IF fault = 1 THEN thrown(500, "Failed to delete product")
    ELSE IF ~productFindById(id) THEN fail(404, "Product not found")
    ELSE IF fault = 2 THEN thrown(500, "Failed to delete product")
    ELSE ok(200, [Store EXCEPT
            !.products = [p \in DOMAIN products \ {id} |-> products[p]]])

getProducts(fault) ==
    IF fault \in {1, 2} THEN thrown(500, "Failed to fetch products") ELSE ok(200, Store)

getProductById(id, fault) ==
    IF fault = 1 THEN thrown(500, "Failed to fetch product")
    ELSE IF ~productFindById(id) THEN fail(404, "Product not found")
    ELSE ok(200, Store)

\* ------------------------------------------------------------------ orders
\* z.enum([...]) of updateOrderStatusSchema
OrderStatuses ==
    {"placed", "confirmed", "preparing", "out_for_delivery", "delivered", "cancelled"}

\* a schema that takes any string for status
updateOrderStatusSchemaAny(body) == TRUE

updateOrderStatusSchemaOk(body) == body.status \in OrderStatuses

orderFindById(id) == id \in DOMAIN orders

updateOrderStatus(id, body, fault) ==
    IF ~updateOrderStatusSchemaOk(body) THEN fail(400, "Invalid enum value")
    ELSE IF fault = 1 THEN thrown(500, "Failed to update order status")
    ELSE IF ~orderFindById(id) THEN fail(404, "Order not found")
    ELSE IF fault = 2 THEN thrown(500, "Failed to update order status")
    ELSE LET saved == [Store EXCEPT !.orders[id].status = body.status] IN
    \* Order.findById(order._id).populate(...) after the save
    IF fault = 3
    THEN [thrown(500, "Failed to update order status") EXCEPT !.orders = saved.orders]
    ELSE ok(200, saved)

getAllOrders(fault) ==
    IF fault \in {1, 2} THEN thrown(500, "Failed to fetch orders") ELSE ok(200, Store)

getOrderById(id, fault) ==
    IF fault = 1 THEN thrown(500, "Failed to fetch order")
    ELSE IF ~orderFindById(id) THEN fail(404, "Order not found")
    ELSE ok(200, Store)

getOrderStats(fault) ==
    IF fault \in 1..5 THEN thrown(500, "Failed to fetch order stats") ELSE ok(200, Store)

\* ------------------------------------------------------------------ auth
\* bcrypt.hash(password): the hash of a password; NoHash: a user record with
\* no passwordHash.
NoHash == <<>>
hash(password) == <<"bcrypt", password>>

\* a comparison that accepts every password
bcryptCompareAny(password, passwordHash) == TRUE

\* bcrypt.compare(password, passwordHash)
bcryptCompare(password, passwordHash) == hash(password) = passwordHash

\* Addresses z.string().email() accepts, among the ones submitted.
WellFormedEmails ==
    {"admin@veggiefresh.com", "customer@veggiefresh.com", "phone@veggiefresh.com",
     "ops@veggiefresh.com"}

\* adminLoginSchema.parse
adminLoginSchemaOk(body) == body.email \in WellFormedEmails /\ body.password # ""

\* User.findOne({ email }): the user's id, 0 when there is none
userFindOne(email) ==
    IF \E u \in DOMAIN users : users[u].email = email
    THEN CHOOSE u \in DOMAIN users :
            /\ users[u].email = email
            /\ \A v \in DOMAIN users : users[v].email = email => u <= v
    ELSE 0

\* generateTokens(userId): throws when JWT_SECRET is not configured; both
\* tokens are signed over { userId }.
generateTokens(userId) ==
    IF ~jwtSecret
    THEN [thrown |-> TRUE, accessToken |-> 0, refreshToken |-> 0]
    ELSE [thrown |-> FALSE, accessToken |-> userId, refreshToken |-> userId]

\* adminLogin without its role check
loginRoleNeverRejected(user) == FALSE

\* the role check of adminLogin
loginRoleRejected(user) == users[user].role # "admin"

\* adminLogin with the password verified before the role is checked
adminLoginPasswordFirst(body, fault) ==
    IF ~adminLoginSchemaOk(body) THEN fail(400, "Validation error")
    ELSE IF fault = 1 THEN thrown(400, "Login failed")
    ELSE LET user == userFindOne(body.email) IN
    IF user = 0 THEN fail(401, "Invalid credentials")
    ELSE IF users[user].passwordHash = NoHash
    THEN [fail(401, "Invalid credentials") EXCEPT !.actor = user]
    ELSE IF fault = 2
    THEN [thrown(400, "Login failed") EXCEPT !.actor = user, !.compared = TRUE]
    ELSE IF ~bcryptCompare(body.password, users[user].passwordHash)
    THEN [fail(401, "Invalid credentials") EXCEPT !.actor = user, !.compared = TRUE]
    ELSE IF loginRoleRejected(user)
    THEN [fail(403, "Admin access required") EXCEPT
            !.actor = user, !.compared = TRUE]
    ELSE LET tokens == generateTokens(user) IN
    IF tokens.thrown
    THEN [thrown(400, "Login failed") EXCEPT !.actor = user, !.compared = TRUE]
    ELSE [ok(200, Store) EXCEPT
            !.actor = user, !.compared = TRUE,
            !.accessToken = tokens.accessToken,
            !.refreshToken = tokens.refreshToken]

adminLogin(body, fault) ==
    IF ~adminLoginSchemaOk(body) THEN fail(400, "Validation error")
    ELSE IF fault = 1 THEN thrown(400, "Login failed")
    ELSE LET user == userFindOne(body.email) IN
    IF user = 0 THEN fail(401, "Invalid credentials")
    ELSE IF users[user].passwordHash = NoHash
    THEN [fail(401, "Invalid credentials") EXCEPT !.actor = user]
    ELSE IF loginRoleRejected(user)
    THEN [fail(403, "Admin access required") EXCEPT !.actor = user]
    ELSE IF fault = 2
    THEN [thrown(400, "Login failed") EXCEPT !.actor = user, !.compared = TRUE]
    ELSE IF ~bcryptCompare(body.password, users[user].passwordHash)
    THEN [fail(401, "Invalid credentials") EXCEPT !.actor = user, !.compared = TRUE]
    ELSE LET tokens == generateTokens(user) IN
    IF tokens.thrown
    THEN [thrown(400, "Login failed") EXCEPT !.actor = user, !.compared = TRUE]
    ELSE [ok(200, Store) EXCEPT
            !.actor = user, !.compared = TRUE,
            !.accessToken = tokens.accessToken,
            !.refreshToken = tokens.refreshToken]

\* A bearer token: NoToken (no Authorization header), BadToken (jwt.verify
\* throws: malformed, expired, wrong signature), or u > 0, a token signed
\* with JWT_SECRET over { userId: u }.
NoToken == 0
BadToken == -1

getAdminProfile(token, fault) ==
    IF ~jwtSecret THEN fail(500, "JWT_SECRET is not configured")
    ELSE IF token = NoToken THEN fail(401, "Access token required")
    ELSE IF token = BadToken \/ fault = 1 THEN thrown(401, "Invalid token")
    ELSE IF token \notin DOMAIN users
    THEN fail(403, "Admin access required")
    ELSE IF users[token].role # "admin"
    THEN [fail(403, "Admin access required") EXCEPT !.actor = token]
    ELSE [ok(200, Store) EXCEPT !.actor = token]

\* ------------------------------------------------------------------ middleware
\* middlewares/auth: authenticateToken verifies the bearer token and sets
\* req.user; requireAdmin lets only a user with role 'admin' through.
authenticateToken(token) ==
    IF token = NoToken
    THEN [accepted |-> FALSE, user |-> 0, status |-> 401, error |-> "Access token required"]
    ELSE IF ~jwtSecret \/ token = BadToken \/ token \notin DOMAIN users
    THEN [accepted |-> FALSE, user |-> 0, status |-> 401, error |-> "Invalid token"]
    ELSE [accepted |-> TRUE, user |-> token, status |-> 200, error |-> ""]

requireAdmin(user) ==
    IF user \in DOMAIN users /\ users[user].role = "admin"
    THEN [accepted |-> TRUE, user |-> user, status |-> 200, error |-> ""]
    ELSE [accepted |-> FALSE, user |-> user, status |-> 403,
          error |-> "Admin access required"]

\* ------------------------------------------------------------------ routers
route(method, path, middleware, handler) ==
    [method |-> method, path |-> path, middleware |-> middleware, handler |-> handler]

Guarded == <<"authenticateToken", "requireAdmin">>

authRouter ==
    {route("POST", "/auth/login", <<>>, "adminLogin"),
     route("GET", "/auth/me", Guarded, "getAdminProfile")}

productsRouter ==
    {route("GET", "/products", Guarded, "getProducts"),
     route("GET", "/products/:id", Guarded, "getProductById"),
     route("POST", "/products", Guarded, "createProduct"),
     route("PUT", "/products/:id", Guarded, "updateProduct"),
     route("DELETE", "/products/:id", Guarded, "deleteProduct")}

\* categoriesRouter with GET /categories registered without its middleware
categoriesRouterUnguardedList ==
    {route("GET", "/categories", <<>>, "getCategories"),
     route("GET", "/categories/:id", Guarded, "getCategoryById"),
     route("POST", "/categories", Guarded, "createCategory"),
     route("PUT", "/categories/:id", Guarded, "updateCategory"),
     route("DELETE", "/categories/:id", Guarded, "deleteCategory")}

categoriesRouter ==
    {route("GET", "/categories", Guarded, "getCategories"),
     route("GET", "/categories/:id", Guarded, "getCategoryById"),
     route("POST", "/categories", Guarded, "createCategory"),
     route("PUT", "/categories/:id", Guarded, "updateCategory"),
     route("DELETE", "/categories/:id", Guarded, "deleteCategory")}

ordersRouter ==
    {route("GET", "/orders", Guarded, "getAllOrders"),
     route("GET", "/orders/stats", Guarded, "getOrderStats"),
     route("GET", "/orders/:id", Guarded, "getOrderById"),
     route("PATCH", "/orders/:id/status", Guarded, "updateOrderStatus")}

Routes == authRouter \cup productsRouter \cup categoriesRouter \cup ordersRouter

routeOf(handler) == CHOOSE r \in Routes : r.handler = handler

\* Express runs a route's callbacks in the order registered; each either
\* answers or calls next().
RECURSIVE runMiddleware(_, _, _)
runMiddleware(chain, token, ctx) ==
    IF chain = <<>> THEN ctx
    ELSE LET m == IF Head(chain) = "authenticateToken"
                  THEN authenticateToken(token)
                  ELSE requireAdmin(ctx.user) IN
         IF m.accepted
         THEN runMiddleware(Tail(chain), token,
                [ctx EXCEPT !.user = m.user,
                            !.authAccepted = @ \/ Head(chain) = "authenticateToken",
                            !.adminVerified = @ \/ Head(chain) = "requireAdmin"])
         ELSE [ctx EXCEPT !.rejected = TRUE, !.user = m.user,
                          !.status = m.status, !.error = m.error]

NoContext ==
    [rejected |-> FALSE, user |-> 0, authAccepted |-> FALSE, adminVerified |-> FALSE,
     status |-> 200, error |-> ""]

\* ------------------------------------------------------------------ requests
\* Inputs of the requests.
Tokens == {NoToken, BadToken, 1, 2, 4}
RawNames == {<<>>, <<" ">>, <<"a">>, <<" ", "a">>, <<"b">>}
NameFields == {Absent} \cup {Field(n) : n \in RawNames}
CategoryIdParams == 1..MaxCategories
ProductIdParams == 1..MaxProducts
OrderIdParams == 1..(NumOrders + 1)
BodyCategoryIds == {NoCategoryId, BadCategoryId} \cup 1..MaxCategories
BodyStatuses == OrderStatuses \cup {"shipped"}
Emails == WellFormedEmails \cup {"not-an-email"}
Passwords == {"", "admin123", "secret", "wrong"}

\* One call of a handler: its outcome, and the inputs kept for the record.
call(out) == [out |-> out, email |-> "", password |-> "", reqStatus |-> ""]
statusCall(id, body, fault) ==
    [out |-> updateOrderStatus(id, body, fault),
     email |-> "", password |-> "", reqStatus |-> body.status]
loginCall(body, fault) ==
    [out |-> adminLogin(body, fault),
     email |-> body.email, password |-> body.password, reqStatus |-> ""]

NoRequest ==
    [route |-> "none", ran |-> FALSE,
     authAccepted |-> FALSE, adminVerified |-> FALSE, actor |-> 0,
     status |-> 0, success |-> FALSE, error |-> "",
     accessToken |-> 0, refreshToken |-> 0, compared |-> FALSE,
     threw |-> FALSE, email |-> "", password |-> "", reqStatus |-> ""]

\* The router serves one request on route r: the middleware chain, then the
\* controller, whose call is one of `calls`.
serve(r, token, calls) ==
    /\ served < limit
    /\ served' = served + 1
    /\ UNCHANGED <<users, jwtSecret, limit, clients, env, script>>
    /\ LET ctx == runMiddleware(r.middleware, token, NoContext) IN
       IF ctx.rejected
       THEN /\ UNCHANGED store
            /\ last' = [NoRequest EXCEPT
                    !.route = r.handler,
                    !.authAccepted = ctx.authAccepted,
                    !.adminVerified = ctx.adminVerified,
                    !.actor = ctx.user, !.status = ctx.status, !.error = ctx.error]
       ELSE \E c \in calls :
            /\ categories' = c.out.categories
            /\ products' = c.out.products
            /\ orders' = c.out.orders
            /\ nextCategoryId' = c.out.nextCategoryId
            /\ nextProductId' = c.out.nextProductId
            /\ last' = [route |-> r.handler, ran |-> TRUE,
                        authAccepted |-> ctx.authAccepted,
                        adminVerified |-> ctx.adminVerified,
                        actor |-> IF c.out.actor # 0 THEN c.out.actor ELSE ctx.user,
                        status |-> c.out.status, success |-> c.out.success,
                        error |-> c.out.error, accessToken |-> c.out.accessToken,
                        refreshToken |-> c.out.refreshToken,
                        compared |-> c.out.compared, threw |-> c.out.threw,
                        email |-> c.email, password |-> c.password,
                        reqStatus |-> c.reqStatus]

PostLogin ==
    \E token \in Tokens :
        serve(routeOf("adminLogin"), token,
            {loginCall([email |-> e, password |-> p], f) :
                e \in Emails, p \in Passwords, f \in 0..2})

GetMe ==
    \E token \in Tokens :
        serve(routeOf("getAdminProfile"), token,
            {call(getAdminProfile(token, f)) : f \in 0..1})

GetCategories ==
    \E token \in Tokens :
        serve(routeOf("getCategories"), token,
            {call(getCategories(f)) : f \in 0..1})

GetCategoryById ==
    \E token \in Tokens :
        serve(routeOf("getCategoryById"), token,
            {call(getCategoryById(id, f)) : id \in CategoryIdParams, f \in 0..1})

PostCategory ==
    /\ nextCategoryId <= MaxCategories
    /\ \E token \in Tokens :
        serve(routeOf("createCategory"), token,
            {call(createCategory([name |-> n], f)) : n \in NameFields, f \in 0..2})

PutCategory ==
    \E token \in Tokens :
        serve(routeOf("updateCategory"), token,
            {call(updateCategory(id, [name |-> n], f)) :
                id \in CategoryIdParams, n \in NameFields, f \in 0..3})

DeleteCategory ==
    \E token \in Tokens :
        serve(routeOf("deleteCategory"), token,
            {call(deleteCategory(id, f)) : id \in CategoryIdParams, f \in 0..2})

GetProducts ==
    \E token \in Tokens :
        serve(routeOf("getProducts"), token,
            {call(getProducts(f)) : f \in 0..2})

GetProductById ==
    \E token \in Tokens :
        serve(routeOf("getProductById"), token,
            {call(getProductById(id, f)) : id \in ProductIdParams, f \in 0..1})

PostProduct ==
    /\ nextProductId <= MaxProducts
    /\ \E token \in Tokens :
        serve(routeOf("createProduct"), token,
            {call(createProduct([name |-> n, categoryId |-> c], f)) :
                n \in NameFields, c \in BodyCategoryIds, f \in 0..4})

PutProduct ==
    \E token \in Tokens :
        serve(routeOf("updateProduct"), token,
            {call(updateProduct(id, [name |-> n, categoryId |-> c], f)) :
                id \in ProductIdParams, n \in NameFields, c \in BodyCategoryIds,
                f \in 0..5})

DeleteProduct ==
    \E token \in Tokens :
        serve(routeOf("deleteProduct"), token,
            {call(deleteProduct(id, f)) : id \in ProductIdParams, f \in 0..2})

GetOrders ==
    \E token \in Tokens :
        serve(routeOf("getAllOrders"), token,
            {call(getAllOrders(f)) : f \in 0..2})

GetOrderStats ==
    \E token \in Tokens :
        serve(routeOf("getOrderStats"), token,
            {call(getOrderStats(f)) : f \in 0..5})

GetOrderById ==
    \E token \in Tokens :
        serve(routeOf("getOrderById"), token,
            {call(getOrderById(id, f)) : id \in OrderIdParams, f \in 0..1})

PatchOrderStatus ==
    \E token \in Tokens :
        serve(routeOf("updateOrderStatus"), token,
            {statusCall(id, [status |-> st], f) :
                id \in OrderIdParams, st \in BodyStatuses, f \in 0..3})

\* ------------------------------------------------------------------ initial state
\* Users 1..3: an admin, a customer with a password, a customer without one
\* (phone sign-in). Id 4 is a user that was deleted after a token was signed.
SeedUsers ==
    (1 :> [email |-> "admin@veggiefresh.com", passwordHash |-> hash("admin123"),
           role |-> "admin"])
    @@ (2 :> [email |-> "customer@veggiefresh.com", passwordHash |-> hash("secret"),
              role |-> "user"])
    @@ (3 :> [email |-> "phone@veggiefresh.com", passwordHash |-> NoHash,
              role |-> "user"])

SeedCategories == (1 :> [name |-> <<"a">>]) @@ (2 :> [name |-> <<"b">>])

SeedProducts ==
    (1 :> [name |-> <<"a">>, categoryId |-> 1])
    @@ (2 :> [name |-> <<"b">>, categoryId |-> 2])

SeedOrders == [o \in 1..NumOrders |-> [status |-> "placed", total |-> 10 * o]]

Clients == 1..NumClients

Idle ==
    [pc |-> "idle", kind |-> "none", id |-> 0, data |-> Absent,
     categoryId |-> NoCategoryId, product |-> [name |-> <<>>, categoryId |-> 0],
     status |-> 0]

DefaultEnv == [adminEmail |-> "admin@veggiefresh.com", adminPassword |-> "admin123"]

NoRun == [runs |-> 0, created |-> 0, exitCode |-> 0, existed |-> FALSE, threw |-> FALSE]

InitStore ==
    /\ clients = [c \in Clients |-> Idle]
    /\ env = DefaultEnv
    /\ script = NoRun
    /\ users = SeedUsers
    /\ categories = SeedCategories
    /\ products = SeedProducts
    /\ orders = SeedOrders
    /\ nextCategoryId = 3
    /\ nextProductId = 3
    /\ jwtSecret \in BOOLEAN
    /\ last = NoRequest
    /\ served = 0

Init == InitStore /\ limit = MaxRequests

InitRouted == InitStore /\ limit = MaxRouted

AuthRequests == PostLogin \/ GetMe
CategoryRequests ==
    GetCategories \/ GetCategoryById \/ PostCategory \/ PutCategory \/ DeleteCategory
ProductRequests ==
    GetProducts \/ GetProductById \/ PostProduct \/ PutProduct \/ DeleteProduct
OrderRequests == GetOrders \/ GetOrderStats \/ GetOrderById \/ PatchOrderStatus

Next == AuthRequests \/ CategoryRequests \/ ProductRequests \/ OrderRequests

\* The whole API, each of at most MaxRouted requests on any route.
Spec == InitRouted /\ [][Next]_vars

\* The routers taken one at a time.
SpecLogin == Init /\ [][AuthRequests]_vars
SpecCategories == Init /\ [][CategoryRequests]_vars
SpecProducts == Init /\ [][CategoryRequests \/ ProductRequests]_vars
SpecOrders == Init /\ [][OrderRequests]_vars

\* ------------------------------------------------------------------ concurrent clients
\* createProduct and updateProduct of several admin clients, one step per
\* store call (each await is a point where another request may run).
\* Names the concurrent clients submit: none of them trims to the empty
\* string, so that only the interleaving is at work.
ClientNameFields == {Absent, Field(<<"a">>), Field(<<"c">>), Field(<<" ", "c">>)}

setClient(c, rec) == clients' = [clients EXCEPT ![c] = rec]

ConcurrentFrame ==
    UNCHANGED <<users, categories, orders, nextCategoryId, jwtSecret, last, limit,
                env, script>>

\* after the category check of updateProduct / the findById of a product
afterCategoryCheck(cl) ==
    IF cl.kind = "create" THEN "findOne"
    ELSE IF truthy(cl.data) /\ cl.data.value # cl.product.name THEN "findOne"
    ELSE "save"

\* createProduct: parse the body
BeginCreateProduct(c) ==
    /\ clients[c].pc = "idle"
    /\ served < limit
    /\ served' = served + 1
    /\ \E n \in ClientNameFields, cid \in BodyCategoryIds :
        LET body == [name |-> n, categoryId |-> cid] IN
        IF ~createProductSchemaOk(body)
        THEN setClient(c, [Idle EXCEPT !.status = 400])
        ELSE setClient(c, [Idle EXCEPT !.pc = "findCategory", !.kind = "create",
                                       !.data = parsedName(body), !.categoryId = cid])
    /\ UNCHANGED <<products, nextProductId>>
    /\ ConcurrentFrame

\* updateProduct: parse the body
BeginUpdateProduct(c) ==
    /\ clients[c].pc = "idle"
    /\ served < limit
    /\ served' = served + 1
    /\ \E id \in ProductIdParams, n \in ClientNameFields, cid \in BodyCategoryIds :
        LET body == [name |-> n, categoryId |-> cid] IN
        IF ~updateProductSchemaOk(body)
        THEN setClient(c, [Idle EXCEPT !.status = 400])
        ELSE setClient(c, [Idle EXCEPT !.pc = "findById", !.kind = "update",
                                       !.id = id, !.data = parsedName(body),
                                       !.categoryId = cid])
    /\ UNCHANGED <<products, nextProductId>>
    /\ ConcurrentFrame

\* updateProduct: Product.findById(id)
FindProductById(c) ==
    LET cl == clients[c] IN
    /\ cl.pc = "findById"
    /\ IF ~productFindById(cl.id)
       THEN setClient(c, [Idle EXCEPT !.status = 404])
       ELSE LET loaded == [cl EXCEPT !.product = products[cl.id]] IN
            setClient(c, [loaded EXCEPT !.pc =
                IF cl.categoryId # NoCategoryId THEN "findCategory"
                ELSE afterCategoryCheck(loaded)])
    /\ UNCHANGED <<products, nextProductId, served>>
    /\ ConcurrentFrame

\* Category.findById(data.categoryId)
FindCategory(c) ==
    LET cl == clients[c] IN
    /\ cl.pc = "findCategory"
    /\ IF ~categoryFindById(cl.categoryId)
       THEN setClient(c, [Idle EXCEPT !.status = 400])
       ELSE setClient(c, [cl EXCEPT !.pc = afterCategoryCheck(cl)])
    /\ UNCHANGED <<products, nextProductId, served>>
    /\ ConcurrentFrame

\* Product.findOne({ name: data.name })
FindOneProduct(c) ==
    LET cl == clients[c] IN
    /\ cl.pc = "findOne"
    /\ IF productFindOne(cl.data.value)
       THEN setClient(c, [Idle EXCEPT !.status = 400])
       ELSE setClient(c, [cl EXCEPT !.pc = IF cl.kind = "create" THEN "create"
                                            ELSE "save"])
    /\ UNCHANGED <<products, nextProductId, served>>
    /\ ConcurrentFrame

\* Product.create(data)
CreateProductDoc(c) ==
    LET cl == clients[c] IN
    /\ cl.pc = "create"
    /\ nextProductId <= MaxProducts
    /\ products' = (nextProductId :>
            [name |-> cl.data.value, categoryId |-> cl.categoryId]) @@ products
    /\ nextProductId' = nextProductId + 1
    /\ setClient(c, [cl EXCEPT !.pc = "reread"])
    /\ UNCHANGED served
    /\ ConcurrentFrame

\* Object.assign(product, data); product.save(): the paths whose value
\* changed in the loaded document are written.
SaveProduct(c) ==
    LET cl == clients[c] IN
    /\ cl.pc = "save"
    /\ products' = [products EXCEPT ![cl.id] =
            [name |-> IF cl.data.present /\ cl.data.value # cl.product.name
                      THEN cl.data.value ELSE @.name,
             categoryId |-> IF cl.categoryId # NoCategoryId
                                /\ cl.categoryId # cl.product.categoryId
                            THEN cl.categoryId ELSE @.categoryId]]
    /\ setClient(c, [cl EXCEPT !.pc = "reread"])
    /\ UNCHANGED <<nextProductId, served>>
    /\ ConcurrentFrame

\* Product.findById(product._id).populate(...), and the response
RereadProduct(c) ==
    LET cl == clients[c] IN
    /\ cl.pc = "reread"
    /\ setClient(c, [Idle EXCEPT !.status = IF cl.kind = "create" THEN 201 ELSE 200])
    /\ UNCHANGED <<products, nextProductId, served>>
    /\ ConcurrentFrame

ConcurrentNext ==
    \E c \in Clients :
        \/ BeginCreateProduct(c)
        \/ BeginUpdateProduct(c)
        \/ FindProductById(c)
        \/ FindCategory(c)
        \/ FindOneProduct(c)
        \/ CreateProductDoc(c)
        \/ SaveProduct(c)
        \/ RereadProduct(c)

SpecConcurrent == Init /\ [][ConcurrentNext]_vars

\* C4 as stated: while createProduct and updateProduct requests interleave
\* at their store calls, no two stored products have the same name.
C4_ProductNamesUnique ==
    \A p, q \in DOMAIN products : products[p].name = products[q].name => p = q

\* ------------------------------------------------------------------ concurrent order requests
\* getOrderStats and updateOrderStatus of several admin clients, one step per
\* store call: each countDocuments / aggregate / findById / save is atomic,
\* and between two of them another request may run.
PendingStatuses == {"placed", "confirmed", "preparing"}

\* Order.countDocuments(filter): the stored orders whose status is in the set
countDocuments(statuses) ==
    Cardinality({o \in DOMAIN orders : orders[o].status \in statuses})

RECURSIVE sumTotals(_)
sumTotals(ids) ==
    IF ids = {} THEN 0
    ELSE LET o == CHOOSE x \in ids : TRUE IN
         orders[o].total + sumTotals(ids \ {o})

\* Order.aggregate([{$match: {status: 'delivered'}}, {$group: {$sum: '$total'}}])
\* and `totalRevenue.length > 0 ? totalRevenue[0].total : 0`
aggregateRevenue ==
    sumTotals({o \in DOMAIN orders : orders[o].status = "delivered"})

NoStats ==
    [totalOrders |-> 0, pendingOrders |-> 0, deliveredOrders |-> 0,
     cancelledOrders |-> 0, revenue |-> 0]

\* a client of the orders router: pc is the store call it is about to make
OrderIdle ==
    [pc |-> "idle", kind |-> "none", id |-> 0, reqStatus |-> "", status |-> 0,
     data |-> NoStats, overlapped |-> FALSE]

OrderFrame ==
    UNCHANGED <<users, categories, products, nextCategoryId, nextProductId,
                jwtSecret, last, limit, env, script>>

\* the catch block of either handler: 500, whatever was written stays written
orderCallThrows(c) ==
    /\ setClient(c, [OrderIdle EXCEPT !.kind = clients[c].kind, !.status = 500])
    /\ UNCHANGED <<orders, served>>
    /\ OrderFrame

\* a statistics request that has counted and not yet answered
statsInFlight(c) ==
    clients[c].kind = "stats" /\ clients[c].pc \notin {"idle", "countTotal"}

\* a write marks every statistics request that is between two of its calls
markOverlap(c, written) ==
    [d \in Clients |->
        IF d = c THEN written
        ELSE IF statsInFlight(d) THEN [clients[d] EXCEPT !.overlapped = TRUE]
        ELSE clients[d]]

\* getOrderStats is called
BeginOrderStats(c) ==
    /\ clients[c].pc = "idle"
    /\ served < limit
    /\ served' = served + 1
    /\ setClient(c, [OrderIdle EXCEPT !.pc = "countTotal", !.kind = "stats"])
    /\ UNCHANGED orders
    /\ OrderFrame

\* const totalOrders = await Order.countDocuments()
CountTotal(c) ==
    /\ clients[c].pc = "countTotal"
    /\ \/ /\ setClient(c, [clients[c] EXCEPT !.pc = "countPending",
                               !.data.totalOrders = countDocuments(OrderStatuses)])
          /\ UNCHANGED <<orders, served>>
          /\ OrderFrame
       \/ orderCallThrows(c)

\* const pendingOrders = await Order.countDocuments({status: {$in: [...]}})
CountPending(c) ==
    /\ clients[c].pc = "countPending"
    /\ \/ /\ setClient(c, [clients[c] EXCEPT !.pc = "countDelivered",
                               !.data.pendingOrders = countDocuments(PendingStatuses)])
          /\ UNCHANGED <<orders, served>>
          /\ OrderFrame
       \/ orderCallThrows(c)

\* const deliveredOrders = await Order.countDocuments({status: 'delivered'})
CountDelivered(c) ==
    /\ clients[c].pc = "countDelivered"
    /\ \/ /\ setClient(c, [clients[c] EXCEPT !.pc = "countCancelled",
                               !.data.deliveredOrders = countDocuments({"delivered"})])
          /\ UNCHANGED <<orders, served>>
          /\ OrderFrame
       \/ orderCallThrows(c)

\* const cancelledOrders = await Order.countDocuments({status: 'cancelled'})
CountCancelled(c) ==
    /\ clients[c].pc = "countCancelled"
    /\ \/ /\ setClient(c, [clients[c] EXCEPT !.pc = "aggregate",
                               !.data.cancelledOrders = countDocuments({"cancelled"})])
          /\ UNCHANGED <<orders, served>>
          /\ OrderFrame
       \/ orderCallThrows(c)

\* const totalRevenue = await Order.aggregate([...]); res.json({success: true, data})
AggregateRevenue(c) ==
    /\ clients[c].pc = "aggregate"
    /\ \/ /\ setClient(c, [clients[c] EXCEPT !.pc = "idle", !.status = 200,
                               !.data.revenue = aggregateRevenue])
          /\ UNCHANGED <<orders, served>>
          /\ OrderFrame
       \/ orderCallThrows(c)

\* updateOrderStatus is called: updateOrderStatusSchema.parse(req.body)
BeginUpdateOrderStatus(c) ==
    /\ clients[c].pc = "idle"
    /\ served < limit
    /\ served' = served + 1
    /\ \E id \in OrderIdParams, st \in BodyStatuses :
        IF ~updateOrderStatusSchemaOk([status |-> st])
        THEN setClient(c, [OrderIdle EXCEPT !.kind = "update", !.status = 400])
        ELSE setClient(c, [OrderIdle EXCEPT !.pc = "findOrder", !.kind = "update",
                                            !.id = id, !.reqStatus = st])
    /\ UNCHANGED orders
    /\ OrderFrame

\* const order = await Order.findById(id); if (!order) 404
FindOrder(c) ==
    /\ clients[c].pc = "findOrder"
    /\ \/ /\ IF orderFindById(clients[c].id)
             THEN setClient(c, [clients[c] EXCEPT !.pc = "saveOrder"])
             ELSE setClient(c, [OrderIdle EXCEPT !.kind = "update", !.status = 404])
          /\ UNCHANGED <<orders, served>>
          /\ OrderFrame
       \/ orderCallThrows(c)

\* order.status = status; await order.save()
SaveOrder(c) ==
    /\ clients[c].pc = "saveOrder"
    /\ \/ /\ orders' = [orders EXCEPT ![clients[c].id].status = clients[c].reqStatus]
          /\ clients' = markOverlap(c, [clients[c] EXCEPT !.pc = "rereadOrder"])
          /\ UNCHANGED served
          /\ OrderFrame
       \/ orderCallThrows(c)

\* Order.findById(order._id).populate(...), and the response
RereadOrder(c) ==
    /\ clients[c].pc = "rereadOrder"
    /\ \/ /\ setClient(c, [OrderIdle EXCEPT !.kind = "update", !.status = 200])
          /\ UNCHANGED <<orders, served>>
          /\ OrderFrame
       \/ orderCallThrows(c)

ConcurrentOrdersNext ==
    \E c \in Clients :
        \/ BeginOrderStats(c)
        \/ CountTotal(c)
        \/ CountPending(c)
        \/ CountDelivered(c)
        \/ CountCancelled(c)
        \/ AggregateRevenue(c)
        \/ BeginUpdateOrderStatus(c)
        \/ FindOrder(c)
        \/ SaveOrder(c)
        \/ RereadOrder(c)

InitOrders ==
    /\ clients = [c \in Clients |-> OrderIdle]
    /\ env = DefaultEnv
    /\ script = NoRun
    /\ users = SeedUsers
    /\ categories = SeedCategories
    /\ products = SeedProducts
    /\ orders = SeedOrders
    /\ nextCategoryId = 3
    /\ nextProductId = 3
    /\ jwtSecret = TRUE
    /\ last = NoRequest
    /\ served = 0
    /\ limit = MaxRequests

SpecConcurrentOrders == InitOrders /\ [][ConcurrentOrdersNext]_vars

\* a client that holds the 200 response of getOrderStats
statsAnswered(c) ==
    clients[c].kind = "stats" /\ clients[c].pc = "idle" /\ clients[c].status = 200

\* C11 as stated: in every response of getOrderStats, also when
\* updateOrderStatus requests run between its store calls,
\* pendingOrders + deliveredOrders + cancelledOrders <= totalOrders.
C11_StatsCountsConsistent ==
    \A c \in Clients :
        statsAnswered(c) =>
            clients[c].data.pendingOrders + clients[c].data.deliveredOrders
                + clients[c].data.cancelledOrders <= clients[c].data.totalOrders

\* The counts are consistent in the response of a statistics request that no
\* save() of updateOrderStatus fell into.
StatsConsistentWithoutOverlap ==
    \A c \in Clients :
        (statsAnswered(c) /\ ~clients[c].overlapped) =>
            /\ clients[c].data.pendingOrders + clients[c].data.deliveredOrders
                + clients[c].data.cancelledOrders <= clients[c].data.totalOrders
            /\ clients[c].data.totalOrders = countDocuments(OrderStatuses)

\* A statistics response given while an update ran beside it.
StatsAnsweredAfterOverlap ==
    \E c \in Clients : statsAnswered(c) /\ clients[c].overlapped

\* ------------------------------------------------------------------ createAdminUser
\* a fresh User _id (1..4 were issued before)
freshUserId ==
    1 + (CHOOSE m \in DOMAIN users \cup {4} : \A u \in DOMAIN users \cup {4} : u <= m)

\* the script without its check for an existing user
createAdminUserUnchecked(fault) ==
    IF fault \in 1..4
    THEN [users |-> users, exitCode |-> 1, existed |-> FALSE, threw |-> TRUE]
    ELSE [users |-> (freshUserId :>
                        [email |-> env.adminEmail,
                         passwordHash |-> hash(env.adminPassword),
                         role |-> "admin"]) @@ users,
          exitCode |-> 0, existed |-> FALSE, threw |-> FALSE]

\* One run of the script. fault = k: the k-th call throws (mongoose.connect,
\* User.findOne, bcrypt.hash, adminUser.save); process.exit ends the run.
createAdminUser(fault) ==
    IF fault \in {1, 2}
    THEN [users |-> users, exitCode |-> 1, existed |-> FALSE, threw |-> TRUE]
    ELSE IF userFindOne(env.adminEmail) # 0
    THEN [users |-> users, exitCode |-> 0, existed |-> TRUE, threw |-> FALSE]
    ELSE IF fault \in {3, 4}
    THEN [users |-> users, exitCode |-> 1, existed |-> FALSE, threw |-> TRUE]
    ELSE [users |-> (freshUserId :>
                        [email |-> env.adminEmail,
                         passwordHash |-> hash(env.adminPassword),
                         role |-> "admin"]) @@ users,
          exitCode |-> 0, existed |-> FALSE, threw |-> FALSE]

RunCreateAdminUser ==
    /\ script.runs < MaxRuns
    /\ \E fault \in 0..4 :
        LET run == createAdminUser(fault) IN
        /\ users' = run.users
        /\ script' = [runs |-> script.runs + 1,
                      created |-> script.created
                                    + Cardinality(DOMAIN run.users \ DOMAIN users),
                      exitCode |-> run.exitCode, existed |-> run.existed,
                      threw |-> run.threw]
    /\ UNCHANGED <<categories, products, orders, nextCategoryId, nextProductId,
                   jwtSecret, last, served, limit, clients, env>>

\* The script's environment and the users it finds: no user, or the seeded
\* ones (where customer@ is taken by a customer).
InitScript ==
    /\ clients = [c \in Clients |-> Idle]
    /\ env \in [adminEmail : {"admin@veggiefresh.com", "customer@veggiefresh.com",
                              "ops@veggiefresh.com"},
                adminPassword : {"admin123", "secret"}]
    /\ script = NoRun
    /\ users \in {SeedUsers, <<>>}
    /\ categories = SeedCategories
    /\ products = SeedProducts
    /\ orders = SeedOrders
    /\ nextCategoryId = 3
    /\ nextProductId = 3
    /\ jwtSecret = TRUE
    /\ last = NoRequest
    /\ served = 0
    /\ limit = MaxRouted

\* Runs of the script, and logins between them.
SpecScript == InitScript /\ [][RunCreateAdminUser \/ PostLogin]_vars

\* the users with an email
usersWithEmail(us, email) == {u \in DOMAIN us : us[u].email = email}

isAdmin(u) == u \in DOMAIN users /\ users[u].role = "admin"

C2_NonAdminAlways403 ==
    (last.route # "none" /\ last.actor # 0 /\ ~isAdmin(last.actor)) =>
        /\ ~last.success
        /\ last.status = 403
        /\ last.error = "Admin access required"

\* C2, amended: no request succeeds unless its acting user is an admin; a
\* non-admin acting user is answered 403 'Admin access required', except by
\* POST /auth/login when the user has no password hash, which answers 401
\* 'Invalid credentials'.
C2_AdminRoleVerified ==
    /\ last.success => isAdmin(last.actor)
    /\ (last.route # "none" /\ last.actor # 0 /\ ~isAdmin(last.actor)) =>
        \/ last.status = 403 /\ last.error = "Admin access required"
        \/ /\ last.route = "adminLogin"
           /\ users[last.actor].passwordHash = NoHash
           /\ last.status = 401 /\ last.error = "Invalid credentials"

\* a customer with a password tried to log in and was answered 403
C2_Witness ==
    /\ last.route = "adminLogin" /\ last.actor = 2
    /\ last.status = 403 /\ ~last.success

\* C6: adminLogin answers with tokens only when a user with the submitted
\* email exists, has a password hash that the submitted password matches,
\* has role 'admin', and JWT_SECRET is configured; both tokens carry that
\* user's id. Otherwise no token is issued and the status is 400, 401 or 403.
C6_TokensOnlyForVerifiedAdmins ==
    (last.route = "adminLogin" /\ last.ran) =>
        IF last.accessToken # 0 \/ last.refreshToken # 0
        THEN /\ jwtSecret
             /\ last.success
             /\ \E u \in DOMAIN users :
                 /\ users[u].email = last.email
                 /\ users[u].passwordHash # NoHash
                 /\ users[u].role = "admin"
                 /\ users[u].passwordHash = hash(last.password)
                 /\ last.accessToken = u
                 /\ last.refreshToken = u
        ELSE ~last.success /\ last.status \in {400, 401, 403}

\* the admin logged in and was issued tokens
C6_Witness ==
    last.route = "adminLogin" /\ last.accessToken = 1 /\ last.refreshToken = 1

\* the response of a handler's outcome
response(out) ==
    [status |-> out.status, success |-> out.success, error |-> out.error,
     accessToken |-> out.accessToken, refreshToken |-> out.refreshToken]

\* the last request was a login, with a well-formed body, of an existing
\* user who is not an admin, and no call threw
NonAdminLogin ==
    /\ last.route = "adminLogin" /\ last.ran /\ ~last.threw
    /\ adminLoginSchemaOk([email |-> last.email, password |-> last.password])
    /\ userFindOne(last.email) # 0
    /\ users[userFindOne(last.email)].role # "admin"

\* the answer to the last login is 403, the password was not compared, and
\* the same request with any other non-empty password gets the same response
SameForbiddenForEveryPassword ==
    /\ last.status = 403 /\ last.error = "Admin access required"
    /\ ~last.compared
    /\ \A p \in Passwords \ {""} :
        LET other == adminLogin([email |-> last.email, password |-> p], 0) IN
        /\ response(other) = response(last)
        /\ ~other.compared

\* C9 as stated: for an existing user whose role is not 'admin', login
\* requests that differ only in the (non-empty) password get the identical
\* response 403 'Admin access required', and the password is not compared.
C9_RoleBeforePassword == NonAdminLogin => SameForbiddenForEveryPassword

\* C9, amended: the same, for an existing non-admin user who has a password
\* hash; a non-admin user without a password hash is answered 401 'Invalid
\* credentials' whatever the password, and the password is not compared.
C9_RoleBeforePasswordWithHash ==
    NonAdminLogin =>
        IF users[userFindOne(last.email)].passwordHash # NoHash
        THEN SameForbiddenForEveryPassword
        ELSE /\ last.status = 401 /\ last.error = "Invalid credentials"
             /\ ~last.compared
             /\ \A p \in Passwords \ {""} :
                 response(adminLogin([email |-> last.email, password |-> p], 0))
                     = response(last)

\* the customer submitted the correct password and was answered 403
C9_Witness ==
    /\ NonAdminLogin /\ last.email = "customer@veggiefresh.com"
    /\ last.password = "secret" /\ last.status = 403

\* ------------------------------------------------------------------ store claims
\* C3 as stated: no two stored categories have the same name.
C3_CategoryNamesUnique ==
    \A c, d \in DOMAIN categories :
        categories[c].name = categories[d].name => c = d

\* C5: every stored order's status stays in the enum, and a request whose
\* status is outside it is answered 400 and leaves the orders unchanged.
C5_OrderStatusEnum ==
    [][/\ (\A o \in DOMAIN orders : orders[o].status \in OrderStatuses)
          => (\A o \in DOMAIN orders' : orders'[o].status \in OrderStatuses)
       /\ (served' = served + 1 /\ last'.route = "updateOrderStatus" /\ last'.ran
            /\ last'.reqStatus \notin OrderStatuses)
          => (last'.status = 400 /\ orders' = orders)]_vars

\* a status outside the enum was submitted and answered 400
C5_Witness ==
    /\ last.route = "updateOrderStatus" /\ last.ran
    /\ last.reqStatus = "shipped" /\ last.status = 400
    /\ \A o \in DOMAIN orders : orders[o].status \in OrderStatuses

\* C7 as stated: a request answered with an error status leaves the stored
\* categories, products and orders as they were.
C7_ErrorLeavesStoreUnchanged ==
    [][(served' = served + 1 /\ last'.ran /\ last'.status >= 400)
        => UNCHANGED <<categories, products, orders>>]_vars

\* every product's categoryId names a stored category
RefsValid == \A p \in DOMAIN products : products[p].categoryId \in DOMAIN categories

\* C8 as stated: every stored product's categoryId names an existing category.
C8_ProductCategoryRefsValid == RefsValid

\* C8, amended: every request other than a successful deleteCategory keeps
\* every stored product's categoryId naming an existing category;
\* deleteCategory does not look at the products and can leave a reference
\* dangling.
C8_RefsValidUnlessCategoryDeleted ==
    [][(RefsValid /\ ~(last'.route = "deleteCategory" /\ last'.success))
        => RefsValid']_vars

\* a product was created in an existing category
C8_Witness ==
    /\ last.route = "createProduct" /\ last.success
    /\ nextProductId > 3 /\ RefsValid

====
